---- MODULE Spec2Model ----
(***************************************************************************)
(* Model of the order-book extraction pipeline                             *)
(* (finance_orderbooks_processing): header-row discovery, column           *)
(* resolution, value coercion, workbook aggregation, row hashing and       *)
(* filename date parsing.                                                  *)
(*                                                                         *)
(* Text is a sequence of one-character strings.  A missing cell (pandas    *)
(* NaN) is the one-element sequence NaN whose element is a longer token,   *)
(* so it differs from every text.  A number is the sequence <<"num">>      *)
(* followed by the characters of its canonical decimal form.               *)
(***************************************************************************)
EXTENDS Integers, Sequences, FiniteSets

VARIABLES
    pc,          \* position of the run
    raw,         \* raw grid handed to find_header_row / read_sheet
    hdr,         \* value returned by find_header_row
    cleaned_cols, \* read_sheet: the column labels of the working table
    sheet_df,    \* value returned by read_sheet (a frame, or Raised)
    series,      \* column handed to _to_number
    numeric,     \* column returned by _to_number
    filename,    \* name handed to extract_date_from_filename
    date,        \* value returned by extract_date_from_filename
    workbook,    \* the workbook on disk: openable?, enumerable?, its sheets
    visible_sheets, \* read_file: names (indices) of the visible sheets
    frames,      \* read_file: frames collected so far
    cursor,      \* read_file: position in visible_sheets
    df,          \* value returned by read_file (a frame, or Raised)
    enriched     \* value returned by process_excel_file

vars == <<pc, raw, hdr, cleaned_cols, sheet_df, series, numeric, filename, date,
          workbook, visible_sheets, frames, cursor, df, enriched>>

----------------------------------------------------------------------------
(* Characters and text.                                                    *)

UpperChars == <<"A","B","C","D","E","F","G","H","I","J","K","L","M",
                "N","O","P","Q","R","S","T","U","V","W","X","Y","Z">>
LowerChars == <<"a","b","c","d","e","f","g","h","i","j","k","l","m",
                "n","o","p","q","r","s","t","u","v","w","x","y","z">>
DigitChars == <<"0","1","2","3","4","5","6","7","8","9">>

Range(s) == {s[i] : i \in 1..Len(s)}

UpperSet == Range(UpperChars)
Letters == UpperSet \cup Range(LowerChars)
Digits == Range(DigitChars)
Whitespace == {" ", "\t", "\n"}

\* str.lower() on one character
Lower(c) ==
    IF c \in UpperSet
    THEN LowerChars[CHOOSE i \in 1..Len(UpperChars) : UpperChars[i] = c]
    ELSE c

\* int(c) for a digit character
DigitValue(c) == (CHOOSE i \in 1..Len(DigitChars) : DigitChars[i] = c) - 1

\* regex \w on the characters of the model
WordChars == Letters \cup Digits \cup {"_"}
IsWordChar(c) == c \in WordChars

NaN == <<"NaN">>
IsNaN(v) == v = NaN
IsNum(v) == Len(v) >= 1 /\ v[1] = "num"
IsStr(v) == ~IsNaN(v) /\ ~IsNum(v)

RECURSIVE LStrip(_)
LStrip(s) ==
    IF s # <<>> /\ Head(s) \in Whitespace THEN LStrip(Tail(s)) ELSE s

RECURSIVE RStrip(_)
RStrip(s) ==
    IF s # <<>> /\ s[Len(s)] \in Whitespace
    THEN RStrip(SubSeq(s, 1, Len(s) - 1))
    ELSE s

\* str.strip()
Strip(s) == RStrip(LStrip(s))

\* str.lower()
LowerStr(s) == [i \in 1..Len(s) |-> Lower(s[i])]

SepChars == Whitespace \cup {"_", "-"}
IsSepChar(c) == c \in SepChars
KeepAfterSep(c) == ~IsSepChar(c)
KeepWord(c) == IsWordChar(c)

\* normalize(name): "" for a non-string, else strip, lower, drop runs of
\* whitespace/underscore/dash, drop what is not \w
normalize(name) ==
    IF ~IsStr(name) THEN <<>>
    ELSE SelectSeq(SelectSeq(LowerStr(Strip(name)), KeepAfterSep), KeepWord)

----------------------------------------------------------------------------
(* Configuration.                                                          *)

SCAN_ROWS == 20

TARGET_COLUMNS == <<
    <<"J","o","b","N","u","m","b","e","r">>,
    <<"O","f","f","i","c","e">>,
    <<"O","f","f","i","c","e"," ","(","D","i","v",")">>,
    <<"P","r","o","j","e","c","t","T","i","t","l","e">>,
    <<"C","l","i","e","n","t">>,
    <<"L","o","c","a","t","i","o","n"," ","(","C","o","u","n","t","r","y",")">>,
    <<"G","r","o","s","s"," ","F","e","e"," ","(","U","S","D",")">>,
    <<"F","e","e"," ","E","a","r","n","e","d"," ","(","U","S","D",")">>,
    <<"G","r","o","s","s"," ","F","e","e"," ","Y","e","t"," ","T","o"," ","B","e"," ","E","a","r","n","e","d"," ","(","U","S","D",")">>,
    <<"C","u","r","r","e","n","c","y">>,
    <<"G","r","o","s","s","F","e","e">>,
    <<"G","r","o","s","s","F","e","e","E","a","r","n","e","d">>,
    <<"G","r","o","s","s","F","e","e","Y","e","t","T","o","B","e","E","a","r","n","e","d">>,
    <<"S","t","a","t","u","s">>,
    <<"N","e","w","P","r","o","j","e","c","t">>,
    <<"S","t","a","r","t","D","a","t","e">>,
    <<"A","n","t","i","c","i","p","a","t","e","d"," ","E","n","d","D","a","t","e">>,
    <<"P","r","o","j","e","c","t","T","y","p","e">> >>

LocationCountry == TARGET_COLUMNS[6]
NewProject == TARGET_COLUMNS[15]

\* COLUMN_ALIASES: the candidate lists of the two aliased columns
COLUMN_ALIASES(target_col) ==
    IF target_col = LocationCountry THEN
        << LocationCountry,
           <<"L","o","c","a","t","i","o","n">>,
           <<"C","o","u","n","t","r","y">> >>
    ELSE IF target_col = NewProject THEN
        << NewProject,
           <<"N","e","w"," ","P","r","o","j","e","c","t">>,
           <<"N","e","w","_","P","r","o","j","e","c","t">>,
           <<"I","s","N","e","w">>,
           <<"I","s"," ","N","e","w">> >>
    ELSE <<>>

HasAliases(target_col) == target_col \in {LocationCountry, NewProject}

----------------------------------------------------------------------------
(* find_header_row                                                         *)

NotFound == -1

AnchorJob == <<"j","o","b","n","u","m","b","e","r">>
AnchorCurrency == <<"c","u","r","r","e","n","c","y">>

Min(a, b) == IF a <= b THEN a ELSE b

\* row = [normalize(v) for v in df.iloc[r]]; both anchors in row
RowHasAnchors(cells) ==
    LET row == [i \in 1..Len(cells) |-> normalize(cells[i])]
    IN  AnchorJob \in Range(row) /\ AnchorCurrency \in Range(row)

\* the loop "for r in range(max_r)" from r on; r is 0-based
RECURSIVE ScanFrom(_, _, _)
ScanFrom(grid, r, max_r) ==
    IF r >= max_r THEN NotFound
    ELSE IF RowHasAnchors(grid[r + 1]) THEN r
    ELSE ScanFrom(grid, r + 1, max_r)

\* the scan without the SCAN_ROWS bound
find_header_row_unbounded(grid) == ScanFrom(grid, 0, Len(grid))

\* find_header_row(df_no_header)
find_header_row(grid) == ScanFrom(grid, 0, Min(Len(grid), SCAN_ROWS))

----------------------------------------------------------------------------
(* _to_number                                                              *)

AmountChars == Digits \cup {".", ","}
IsAmountChar(c) == c \in AmountChars

\* end of the maximal run of [\d\.,] starting at position i (i - 1 if none)
RECURSIVE RunEnd(_, _)
RunEnd(s, i) ==
    IF i <= Len(s) /\ IsAmountChar(s[i]) THEN RunEnd(s, i + 1) ELSE i - 1

\* s.str.replace(r"\(([\d\.,]+)\)", r"-\1", regex=True) from position i on
RECURSIVE ParenRewriteFrom(_, _)
ParenRewriteFrom(s, i) ==
    IF i > Len(s) THEN <<>>
    ELSE LET e == RunEnd(s, i + 1)
         IN  IF s[i] = "(" /\ e >= i + 1 /\ e + 1 <= Len(s) /\ s[e + 1] = ")"
             THEN <<"-">> \o SubSeq(s, i + 1, e) \o ParenRewriteFrom(s, e + 2)
             ELSE <<s[i]>> \o ParenRewriteFrom(s, i + 1)

ParenRewrite(s) == ParenRewriteFrom(s, 1)

\* s.str.replace(r"[^\d\.\-]", "", regex=True)
NumberChars == Digits \cup {".", "-"}
IsNumberChar(c) == c \in NumberChars
StripNonNumeric(s) == SelectSeq(s, IsNumberChar)

AllDigits(s) == \A i \in 1..Len(s) : s[i] \in Digits

RECURSIVE DropLeadingZeros(_)
DropLeadingZeros(s) ==
    IF s # <<>> /\ Head(s) = "0" THEN DropLeadingZeros(Tail(s)) ELSE s

RECURSIVE DropTrailingZeros(_)
DropTrailingZeros(s) ==
    IF s # <<>> /\ s[Len(s)] = "0"
    THEN DropTrailingZeros(SubSeq(s, 1, Len(s) - 1))
    ELSE s

\* the number with integer digits ip, fraction digits fp and the given sign,
\* in canonical form (equal numbers have equal forms)
Number(neg, ip, fp) ==
    LET i == DropLeadingZeros(ip)
        f == DropTrailingZeros(fp)
        zero == i = <<>> /\ f = <<>>
    IN  <<"num">>
        \o (IF neg /\ ~zero THEN <<"-">> ELSE <<>>)
        \o (IF i = <<>> THEN <<"0">> ELSE i)
        \o (IF f = <<>> THEN <<>> ELSE <<".">> \o f)

\* position of the first "." in s, or 0
FirstDot(s) ==
    IF \E i \in 1..Len(s) : s[i] = "."
    THEN CHOOSE i \in 1..Len(s) : s[i] = "." /\ \A j \in 1..(i - 1) : s[j] # "."
    ELSE 0

\* pd.to_numeric(s, errors="coerce") on one text made of digits, "-" and ".":
\* an optional sign, digits with at most one point and at least one digit;
\* anything else is NaN
ToNumeric(s) ==
    LET neg == s # <<>> /\ Head(s) = "-"
        body == IF neg THEN Tail(s) ELSE s
        d == FirstDot(body)
        ip == IF d = 0 THEN body ELSE SubSeq(body, 1, d - 1)
        fp == IF d = 0 THEN <<>> ELSE SubSeq(body, d + 1, Len(body))
    IN  IF AllDigits(ip) /\ AllDigits(fp) /\ Len(ip) + Len(fp) >= 1
        THEN Number(neg, ip, fp)
        ELSE NaN

\* series.astype(str) on one value: a missing value becomes the text "nan",
\* so the fillna("") that follows finds nothing to fill
AsTypeStr(v) == IF IsNaN(v) THEN <<"n","a","n">> ELSE v

\* the conversion without the rewriting of parenthesized amounts
to_number_value_no_paren(v) == ToNumeric(StripNonNumeric(AsTypeStr(v)))

\* _to_number on one value
to_number_value(v) == ToNumeric(StripNonNumeric(ParenRewrite(AsTypeStr(v))))

\* _to_number(series)
to_number(s) == [i \in 1..Len(s) |-> to_number_value(s[i])]

----------------------------------------------------------------------------
(* read_sheet                                                              *)

\* pd.DataFrame(): no columns, no rows
EmptyFrame == [columns |-> <<>>, rows |-> <<>>]
\* pd.DataFrame(columns=TARGET_COLUMNS)
EmptySchemaFrame == [columns |-> TARGET_COLUMNS, rows |-> <<>>]
\* df.empty
IsEmpty(f) == Len(f.columns) = 0 \/ Len(f.rows) = 0

\* an exception leaving the function
Raised == [columns |-> <<<<"raised">>>>, rows |-> <<>>]

\* what pd.read_excel finds for a sheet that cannot be read
Unreadable == <<<<<<"unreadable">>>>>>

\* str(i) for i >= 0
RECURSIVE IntToStr(_)
IntToStr(i) ==
    IF i < 10 THEN <<DigitChars[i + 1]>>
    ELSE IntToStr(i \div 10) \o <<DigitChars[(i % 10) + 1]>>

UnnamedPrefix == <<"u","n","n","a","m","e","d","_","c","o","l","_">>
DuplicateInfix == <<"_","d","u","p","l","i","c","a","t","e","_">>

\* col is None, NaN or blank
IsBlankLabel(col) == IsNaN(col) \/ Strip(col) = <<>>

\* the loop over enumerate(cols) from position i (1-based) on; seen_cols maps
\* a label to its number of repeats so far; the placeholder uses the 0-based i
RECURSIVE CleanFrom(_, _, _)
CleanFrom(cols, i, seen_cols) ==
    IF i > Len(cols) THEN <<>>
    ELSE LET clean_col == IF IsBlankLabel(cols[i])
                          THEN UnnamedPrefix \o IntToStr(i - 1)
                          ELSE Strip(cols[i])
         IN  IF clean_col \in DOMAIN seen_cols
             THEN LET n == seen_cols[clean_col] + 1
                  IN  <<clean_col \o DuplicateInfix \o IntToStr(n)>>
                      \o CleanFrom(cols, i + 1,
                                   [seen_cols EXCEPT ![clean_col] = n])
             ELSE <<clean_col>>
                  \o CleanFrom(cols, i + 1,
                               [k \in DOMAIN seen_cols \cup {clean_col} |->
                                   IF k = clean_col THEN 0 ELSE seen_cols[k]])

EmptyMap == [k \in {} |-> <<>>]

\* cleaned of a header row
clean_columns(cols) == CleanFrom(cols, 1, EmptyMap)

\* normalized_map[normalize(actual_col)] = actual_col, for the columns from i on
RECURSIVE NormalizedMapFrom(_, _, _)
NormalizedMapFrom(cleaned, i, m) ==
    IF i > Len(cleaned) THEN m
    ELSE LET key == normalize(cleaned[i])
         IN  NormalizedMapFrom(cleaned, i + 1,
                 [k \in DOMAIN m \cup {key} |->
                     IF k = key THEN cleaned[i] ELSE m[k]])

normalized_map(cleaned) == NormalizedMapFrom(cleaned, 1, EmptyMap)

\* the target column's own name only
possible_names_own(target_col) == <<target_col>>

\* possible_names of a target column
possible_names(target_col) ==
    IF HasAliases(target_col) THEN COLUMN_ALIASES(target_col)
    ELSE <<target_col>>

\* normalized_possible of every name of every target column
normalized_possible ==
    [t \in 1..Len(TARGET_COLUMNS) |->
        [i \in 1..Len(possible_names(TARGET_COLUMNS[t])) |->
            normalize(possible_names(TARGET_COLUMNS[t])[i])]]

\* the loop over possible_names from position i on: the matched actual
\* column, or NaN when no name is in the map
RECURSIVE MatchFrom(_, _, _)
MatchFrom(keys, i, nmap) ==
    IF i > Len(keys) THEN NaN
    ELSE IF keys[i] \in DOMAIN nmap THEN nmap[keys[i]]
    ELSE MatchFrom(keys, i + 1, nmap)

\* matched_col of the t-th target column
matched_col(t, nmap) == MatchFrom(normalized_possible[t], 1, nmap)

\* positions of the columns of the working table named actual_col
Positions(cleaned, actual_col) ==
    {j \in 1..Len(cleaned) : cleaned[j] = actual_col}

\* the matched actual column of every target column (NaN: nothing matched)
Matches(cleaned) ==
    LET nmap == normalized_map(cleaned)
    IN  [t \in 1..Len(TARGET_COLUMNS) |-> matched_col(t, nmap)]

\* out[target_col] = data[actual_col] raises when data[actual_col] is a
\* frame of several columns, that is when actual_col names several columns
AssignRaises(cleaned) ==
    LET m == Matches(cleaned)
    IN  \E t \in 1..Len(TARGET_COLUMNS) :
            ~IsNaN(m[t]) /\ Cardinality(Positions(cleaned, m[t])) > 1

\* out after the mapping loop and reindex(columns=TARGET_COLUMNS)
Resolved(data, cleaned) ==
    LET m == Matches(cleaned)
    IN  [columns |-> TARGET_COLUMNS,
         rows |-> [r \in 1..Len(data) |->
                    [t \in 1..Len(TARGET_COLUMNS) |->
                        IF IsNaN(m[t]) THEN NaN
                        ELSE data[r][CHOOSE j \in Positions(cleaned, m[t]) : TRUE]]]]

\* positions in TARGET_COLUMNS of numeric_columns
numeric_columns == {7, 8, 9, 11, 12, 13}

Column(f, t) == [r \in 1..Len(f.rows) |-> f.rows[r][t]]

\* the loop over numeric_columns: a column that is not all NaN is replaced
\* by _to_number of it
Coerced(f) ==
    [columns |-> f.columns,
     rows |-> [r \in 1..Len(f.rows) |->
                [t \in 1..Len(f.columns) |->
                    IF t \in numeric_columns
                       /\ \E q \in 1..Len(f.rows) : ~IsNaN(f.rows[q][t])
                    THEN to_number(Column(f, t))[r]
                    ELSE f.rows[r][t]]]]

\* raw.empty
GridEmpty(grid) == Len(grid) = 0 \/ Len(grid[1]) = 0

\* read_sheet up to the return of line 143: hdr, cleaned_cols and either the
\* frame returned early or the resolved frame handed to the numeric conversion
read_sheet_resolve(content) ==
    IF content = Unreadable
    THEN [returned |-> TRUE, frame |-> Raised, hdr |-> NotFound, cleaned |-> <<>>]
    ELSE IF GridEmpty(content)
    THEN [returned |-> TRUE, frame |-> EmptyFrame, hdr |-> NotFound, cleaned |-> <<>>]
    ELSE LET h == find_header_row(content)
         IN  IF h = NotFound
             THEN [returned |-> TRUE, frame |-> EmptyFrame, hdr |-> h, cleaned |-> <<>>]
             ELSE LET cleaned == clean_columns(content[h + 1])
                      data == SubSeq(content, h + 2, Len(content))
                      out == Resolved(data, cleaned)
                  IN  IF AssignRaises(cleaned)
                      THEN [returned |-> TRUE, frame |-> Raised,
                            hdr |-> h, cleaned |-> cleaned]
                      ELSE IF IsEmpty(out)
                      THEN [returned |-> TRUE, frame |-> EmptySchemaFrame,
                            hdr |-> h, cleaned |-> cleaned]
                      ELSE [returned |-> FALSE, frame |-> out,
                            hdr |-> h, cleaned |-> cleaned]

\* read_sheet(path, sheet) on the sheet's content
read_sheet(content) ==
    LET r == read_sheet_resolve(content)
    IN  IF r.returned THEN r.frame ELSE Coerced(r.frame)

----------------------------------------------------------------------------
(* extract_date_from_filename                                              *)

None == <<"None">>

\* month_map, in definition order
month_map == <<
    [key |-> <<"j","a","n">>, num |-> <<"1">>, name |-> <<"J","a","n">>],
    [key |-> <<"j","a","n","u","a","r","y">>, num |-> <<"1">>, name |-> <<"J","a","n">>],
    [key |-> <<"f","e","b">>, num |-> <<"2">>, name |-> <<"F","e","b">>],
    [key |-> <<"f","e","b","r","u","a","r","y">>, num |-> <<"2">>, name |-> <<"F","e","b">>],
    [key |-> <<"m","a","r">>, num |-> <<"3">>, name |-> <<"M","a","r">>],
    [key |-> <<"m","a","r","c","h">>, num |-> <<"3">>, name |-> <<"M","a","r">>],
    [key |-> <<"a","p","r">>, num |-> <<"4">>, name |-> <<"A","p","r">>],
    [key |-> <<"a","p","r","i","l">>, num |-> <<"4">>, name |-> <<"A","p","r">>],
    [key |-> <<"m","a","y">>, num |-> <<"5">>, name |-> <<"M","a","y">>],
    [key |-> <<"j","u","n">>, num |-> <<"6">>, name |-> <<"J","u","n">>],
    [key |-> <<"j","u","n","e">>, num |-> <<"6">>, name |-> <<"J","u","n">>],
    [key |-> <<"j","u","l">>, num |-> <<"7">>, name |-> <<"J","u","l">>],
    [key |-> <<"j","u","l","y">>, num |-> <<"7">>, name |-> <<"J","u","l">>],
    [key |-> <<"a","u","g">>, num |-> <<"8">>, name |-> <<"A","u","g">>],
    [key |-> <<"a","u","g","u","s","t">>, num |-> <<"8">>, name |-> <<"A","u","g">>],
    [key |-> <<"s","e","p">>, num |-> <<"9">>, name |-> <<"S","e","p">>],
    [key |-> <<"s","e","p","t">>, num |-> <<"9">>, name |-> <<"S","e","p">>],
    [key |-> <<"s","e","p","t","e","m","b","e","r">>, num |-> <<"9">>, name |-> <<"S","e","p">>],
    [key |-> <<"o","c","t">>, num |-> <<"1","0">>, name |-> <<"O","c","t">>],
    [key |-> <<"o","c","t","o","b","e","r">>, num |-> <<"1","0">>, name |-> <<"O","c","t">>],
    [key |-> <<"n","o","v">>, num |-> <<"1","1">>, name |-> <<"N","o","v">>],
    [key |-> <<"n","o","v","e","m","b","e","r">>, num |-> <<"1","1">>, name |-> <<"N","o","v">>],
    [key |-> <<"d","e","c">>, num |-> <<"1","2">>, name |-> <<"D","e","c">>],
    [key |-> <<"d","e","c","e","m","b","e","r">>, num |-> <<"1","2">>, name |-> <<"D","e","c">>] >>

\* regex 20\d{2} matches at position i of s
YearAt(s, i) ==
    /\ i + 3 <= Len(s)
    /\ s[i] = "2" /\ s[i + 1] = "0"
    /\ s[i + 2] \in Digits /\ s[i + 3] \in Digits

\* re.search(r'20\d{2}', filename) from position i on, then int(...)
RECURSIVE YearFrom(_, _)
YearFrom(s, i) ==
    IF i > Len(s) THEN None
    ELSE IF YearAt(s, i) THEN Number(FALSE, SubSeq(s, i, i + 3), <<>>)
    ELSE YearFrom(s, i + 1)

\* lines 30-31: year
extract_year(s) == YearFrom(s, 1)

\* key in text
IsSubstring(key, text) ==
    \E i \in 1..(Len(text) - Len(key) + 1) :
        SubSeq(text, i, i + Len(key) - 1) = key

\* the loop over month_map.items() from entry k on
RECURSIVE MonthFrom(_, _)
MonthFrom(filename_lower, k) ==
    IF k > Len(month_map) THEN [month_name |-> None, month_num |-> None]
    ELSE IF IsSubstring(month_map[k].key, filename_lower)
    THEN [month_name |-> month_map[k].name,
          month_num |-> Number(FALSE, month_map[k].num, <<>>)]
    ELSE MonthFrom(filename_lower, k + 1)

\* the month loop on the filename as given, not lower-cased
extract_month_case_sensitive(s) == MonthFrom(s, 1)

\* lines 34-42: month_name and month_num
extract_month(s) == MonthFrom(LowerStr(s), 1)

\* extract_date_from_filename(filename): (year, month_name, month_num)
extract_date_from_filename(s) ==
    [year |-> extract_year(s),
     month_name |-> extract_month(s).month_name,
     month_num |-> extract_month(s).month_num]

----------------------------------------------------------------------------
(* calculate_row_hash                                                      *)

\* positions in TARGET_COLUMNS of key_fields, in key_fields order:
\* JobNumber, ProjectTitle, Client, Office
key_fields == <<1, 4, 5, 2>>

\* str(v) of a cell of a key field: text as it is, a missing value "nan"
PyStr(v) == IF IsNaN(v) THEN <<"n","a","n">> ELSE v

\* delimiter.join(parts)
RECURSIVE Join(_, _)
Join(parts, delimiter) ==
    IF parts = <<>> THEN <<>>
    ELSE IF Len(parts) = 1 THEN parts[1]
    ELSE parts[1] \o delimiter \o Join(Tail(parts), delimiter)

\* hash_string of a row (the row's cells in TARGET_COLUMNS order; every
\* key field is a key of row_dict, so the default of .get is never taken)
hash_string(row) ==
    Join([i \in 1..Len(key_fields) |-> PyStr(row[key_fields[i]])], <<"|">>)

\* hashlib.md5(...).hexdigest(): the digest of a text, as a token of it
Md5(text) == <<"md5">> \o text

calculate_row_hash(row) == Md5(hash_string(row))

----------------------------------------------------------------------------
(* read_file and process_excel_file                                        *)

\* a loop that loses the collected frames when a sheet raises
frames_after_lossy(fs, result) ==
    IF result = Raised THEN <<>>
    ELSE IF IsEmpty(result) THEN fs
    ELSE Append(fs, result)

\* frames after one turn of the loop over visible_sheets: a sheet that
\* raised or came back empty adds nothing
frames_after(fs, result) ==
    IF result = Raised THEN fs
    ELSE IF IsEmpty(result) THEN fs
    ELSE Append(fs, result)

RECURSIVE ConcatRows(_)
ConcatRows(fs) ==
    IF fs = <<>> THEN <<>> ELSE Head(fs).rows \o ConcatRows(Tail(fs))

\* the end of read_file: pd.concat(frames, ignore_index=True), or the empty
\* schema frame when nothing was collected
read_file_result(fs) ==
    IF fs = <<>> THEN EmptySchemaFrame
    ELSE [columns |-> Head(fs).columns, rows |-> ConcatRows(fs)]

MetadataColumns == <<
    <<"s","o","u","r","c","e","_","f","i","l","e">>,
    <<"s","o","u","r","c","e","_","m","t","i","m","e">>,
    <<"d","a","t","a","_","y","e","a","r">>,
    <<"d","a","t","a","_","m","o","n","t","h">>,
    <<"d","a","t","a","_","m","o","n","t","h","_","n","u","m">>,
    <<"d","a","t","a","_","c","o","l","l","e","c","t","i","o","n","_","d","a","t","e">>,
    <<"r","o","w","_","h","a","s","h">> >>

\* mtime.date(): the date part of "YYYY-MM-DD hh:mm"
DateOf(mtime) == SubSeq(mtime, 1, 10)

\* process_excel_file after read_file returned: an exception or an empty
\* frame gives pd.DataFrame(); else the metadata columns and the row hash
\* are attached to every row
process_result(file_info, frame) ==
    IF frame = Raised \/ IsEmpty(frame) THEN EmptyFrame
    ELSE LET d == extract_date_from_filename(file_info.name)
         IN  [columns |-> frame.columns \o MetadataColumns,
              rows |-> [r \in 1..Len(frame.rows) |->
                  frame.rows[r] \o
                  << file_info.name, file_info.mtime,
                     d.year, d.month_name, d.month_num,
                     DateOf(file_info.mtime),
                     calculate_row_hash(frame.rows[r]) >>]]

----------------------------------------------------------------------------
(* Inputs.                                                                 *)

MaxRows == 22       \* rows of a grid handed to find_header_row
MaxExtra == 3       \* header cells after the first two
MaxData == 2        \* data rows below a header
MaxLen == 3         \* characters of a value handed to _to_number
MaxTokens == 3      \* pieces of a filename
MaxSheets == 2      \* sheets of a workbook

SeqsUpTo(S, n) == UNION {[1..k -> S] : k \in 0..n}

JobNumberLabel == TARGET_COLUMNS[1]
CurrencyLabel == TARGET_COLUMNS[10]
Title == <<"O","r","d","e","r"," ","B","o","o","k">>

\* spellings of the two anchor labels; the last one is no job number
Spellings == <<
    <<JobNumberLabel, CurrencyLabel>>,
    <<<<"J","o","b"," ","N","u","m","b","e","r">>, <<" ","c","u","r","r","e","n","c","y"," ">>>>,
    <<<<"J","O","B","-","N","U","M","B","E","R">>, <<"C","u","r","r","e","n","c","y",".">>>>,
    <<<<"J","o","b"," ","N","o">>, CurrencyLabel>> >>

\* a grid of n rows of three cells: row b holds both anchors, row j the job
\* number only, row k the currency only, every other row a title
HeaderGrid(n, b, j, k, sp) ==
    [i \in 1..n |->
        IF i = b THEN <<Spellings[sp][1], Title, Spellings[sp][2]>>
        ELSE IF i = j THEN <<Spellings[sp][1], NaN, NaN>>
        ELSE IF i = k THEN <<NaN, NaN, Spellings[sp][2]>>
        ELSE <<Title, NaN, NaN>>]

HeaderGrids ==
    {HeaderGrid(n, b, j, k, sp) :
        n \in 0..MaxRows, b \in 0..MaxRows, j \in {0, 1, SCAN_ROWS},
        k \in {0, 2, SCAN_ROWS + 1}, sp \in 1..Len(Spellings)}

\* the text of the data cell of row r, column c
Cell(r, c) ==
    IF (r + c) % 5 = 0 THEN NaN
    ELSE <<"$", DigitChars[r + 1], ",", DigitChars[c + 1]>>

Banner(w) == [c \in 1..w |-> IF c = 1 THEN Title ELSE NaN]

\* pre banner rows, the header row, n data rows
SheetGrid(pre, header, n) ==
    [i \in 1..(pre + 1 + n) |->
        IF i <= pre THEN Banner(Len(header))
        ELSE IF i = pre + 1 THEN header
        ELSE [c \in 1..Len(header) |-> Cell(i - pre - 1, c)]]

ExtraLabels == {
    JobNumberLabel,
    <<"J","o","b"," ","N","u","m","b","e","r">>,
    <<"J","o","b","N","u","m","b","e","r","_","d","u","p","l","i","c","a","t","e","_","1">>,
    NaN,
    <<"u","n","n","a","m","e","d","_","c","o","l","_","3">>,
    <<"C","o","u","n","t","r","y">>,
    <<"L","o","c","a","t","i","o","n">>,
    <<"G","r","o","s","s","F","e","e">> }

\* header rows: the two anchors, then up to MaxExtra more labels
HeaderRows ==
    {<<JobNumberLabel, CurrencyLabel>> \o extra :
        extra \in SeqsUpTo(ExtraLabels, MaxExtra)}

\* grids with a header row, below a banner row when the header row has an
\* odd number of cells; the empty grid; grids of titles and of a job number
\* without a currency, where no header row is found
SheetGrids ==
    {SheetGrid(Len(header) % 2, header, n) :
        header \in HeaderRows, n \in 0..MaxData}
    \cup {<<>>}
    \cup {SheetGrid(1, <<JobNumberLabel, Title>> \o extra, n) :
            extra \in SeqsUpTo({NaN, CurrencyLabel}, 1), n \in 0..MaxData}

NumberAlphabet == {"0", "1", ".", ",", "(", ")", "-", "$"}

Examples == {
    <<"(","1",",","2","3","4",".","5","0",")">>,
    <<"$","2",",","0","0","0">>,
    <<"n","/","a">>,
    NaN }

\* columns handed to _to_number: no row, one row, or one row and an example
SeriesInputs ==
    {<<>>} \cup
    {<<v>> : v \in SeqsUpTo(NumberAlphabet, MaxLen) \cup Examples} \cup
    {<<v, w>> : v \in SeqsUpTo(NumberAlphabet, MaxLen), w \in Examples} \cup
    {<<w, v>> : v \in SeqsUpTo(NumberAlphabet, MaxLen), w \in Examples}

FileTokens == {
    <<"M","a","r">>, <<"c","h">>, <<"m","a","y">>, <<"S","e","p","t">>,
    <<"e","m","b","e","r">>, <<"D","e","c">>, <<"2","0">>, <<"2","5">>,
    <<"2","0","2","4">> }

RECURSIVE Flatten(_)
Flatten(ss) == IF ss = <<>> THEN <<>> ELSE Head(ss) \o Flatten(Tail(ss))

Filenames ==
    {Flatten(ts) : ts \in SeqsUpTo(FileTokens, MaxTokens)} \cup
    { <<"1","_","O","r","d","e","r","_","B","o","o","k","_","M","a","r","_","2","0","2","5",".","x","l","s","x">>,
      <<"n","o","_","d","a","t","e","_","h","e","r","e",".","x","l","s","x">> }

IdleDate == [year |-> None, month_name |-> None, month_num |-> None]
IdleWorkbook == [opens |-> TRUE, enumerates |-> TRUE, sheets |-> <<>>,
                 name |-> <<>>, mtime |-> <<>>]

----------------------------------------------------------------------------
(* find_header_row on its own.                                             *)

InitHeader ==
    /\ pc = "find_header_row"
    /\ raw \in HeaderGrids
    /\ hdr = NotFound /\ cleaned_cols = <<>> /\ sheet_df = EmptyFrame
    /\ series = <<>> /\ numeric = <<>>
    /\ filename = <<>> /\ date = IdleDate
    /\ workbook = IdleWorkbook /\ visible_sheets = <<>> /\ frames = <<>>
    /\ cursor = 0 /\ df = EmptyFrame /\ enriched = EmptyFrame

FindHeader ==
    /\ pc = "find_header_row"
    /\ hdr' = find_header_row(raw)
    /\ pc' = "header_returned"
    /\ UNCHANGED <<raw, cleaned_cols, sheet_df, series, numeric, filename,
                   date, workbook, visible_sheets, frames, cursor, df, enriched>>

NextHeader == FindHeader

SpecHeader == InitHeader /\ [][NextHeader]_vars

\* the row holds a cell normalizing to "jobnumber" and one to "currency"
C2_BothAnchors(cells) ==
    /\ \E c \in 1..Len(cells) :
          normalize(cells[c]) = <<"j","o","b","n","u","m","b","e","r">>
    /\ \E c \in 1..Len(cells) :
          normalize(cells[c]) = <<"c","u","r","r","e","n","c","y">>

\* 0-based indices below min(SCAN_ROWS, rowCount) of the rows with both anchors
C2_Hits(grid) ==
    {r \in 0..(Min(SCAN_ROWS, Len(grid)) - 1) : C2_BothAnchors(grid[r + 1])}

----------------------------------------------------------------------------
(* _to_number on its own.                                                  *)

InitNumber ==
    /\ pc = "to_number"
    /\ series \in SeriesInputs
    /\ raw = <<>> /\ hdr = NotFound /\ cleaned_cols = <<>>
    /\ sheet_df = EmptyFrame /\ numeric = <<>>
    /\ filename = <<>> /\ date = IdleDate
    /\ workbook = IdleWorkbook /\ visible_sheets = <<>> /\ frames = <<>>
    /\ cursor = 0 /\ df = EmptyFrame /\ enriched = EmptyFrame

ToNumber ==
    /\ pc = "to_number"
    /\ numeric' = to_number(series)
    /\ pc' = "number_returned"
    /\ UNCHANGED <<raw, hdr, cleaned_cols, sheet_df, series, filename, date,
                   workbook, visible_sheets, frames, cursor, df, enriched>>

NextNumber == ToNumber

SpecNumber == InitNumber /\ [][NextNumber]_vars

\* absent taken as empty text
C6_Text(v) == IF v = NaN THEN <<>> ELSE v

\* position a of t opens a parenthesized amount "(D)", D a non-empty run of
\* digits, points and commas
C6_OpensAmount(t, a) ==
    /\ t[a] = "("
    /\ \E b \in (a + 2)..Len(t) :
          /\ t[b] = ")"
          /\ \A k \in (a + 1)..(b - 1) : t[k] \in Digits \cup {".", ","}

C6_IsKept(c) == c # ""

\* what is left of t: "-" for the "(" of an amount, every digit, "-" and "."
C6_Kept(t) ==
    SelectSeq([k \in 1..Len(t) |->
                  IF C6_OpensAmount(t, k) THEN "-"
                  ELSE IF t[k] \in Digits \cup {"-", "."} THEN t[k]
                  ELSE ""],
              C6_IsKept)

C6_Body(k) == IF k # <<>> /\ k[1] = "-" THEN Tail(k) ELSE k

C6_Dots(k) == {i \in 1..Len(C6_Body(k)) : C6_Body(k)[i] = "."}

\* k is a signed decimal: an optional "-", digits, at most one point, at
\* least one digit
C6_Parses(k) ==
    /\ \A i \in 1..Len(C6_Body(k)) : C6_Body(k)[i] # "-"
    /\ Cardinality(C6_Dots(k)) <= 1
    /\ Len(C6_Body(k)) > Cardinality(C6_Dots(k))

RECURSIVE C6_Pow10(_)
C6_Pow10(n) == IF n = 0 THEN 1 ELSE 10 * C6_Pow10(n - 1)

\* the integer written by the digits of k, its point and sign left out
RECURSIVE C6_Digits(_)
C6_Digits(k) ==
    IF k = <<>> THEN 0
    ELSE IF k[Len(k)] \in Digits
    THEN 10 * C6_Digits(SubSeq(k, 1, Len(k) - 1)) + DigitValue(k[Len(k)])
    ELSE C6_Digits(SubSeq(k, 1, Len(k) - 1))

\* digits after the point
C6_Scale(k) ==
    IF C6_Dots(k) = {} THEN 0
    ELSE Len(C6_Body(k)) - (CHOOSE i \in C6_Dots(k) : TRUE)

C6_Signed(k) ==
    IF k # <<>> /\ k[1] = "-" THEN 0 - C6_Digits(k) ELSE C6_Digits(k)

\* the texts k and c write the same number
C6_SameNumber(k, c) ==
    /\ C6_Parses(c)
    /\ C6_Signed(k) * C6_Pow10(C6_Scale(c)) = C6_Signed(c) * C6_Pow10(C6_Scale(k))

\* C6: _to_number keeps the number and order of rows; the value at each
\* position depends on the input at that position only, and is the signed
\* decimal left after taking absent as empty text, rewriting (D) to -D and
\* deleting every character that is not a digit, "-" or ".", or absent when
\* that does not parse: "(1,234.50)" gives -1234.50, "$2,000" gives 2000,
\* "n/a" gives absent.
C6_Coercion ==
    pc = "number_returned" =>
        /\ Len(numeric) = Len(series)
        /\ \A i \in 1..Len(series) :
              LET k == C6_Kept(C6_Text(series[i]))
              IN  /\ numeric[i] = to_number(<<series[i]>>)[1]
                  /\ IF C6_Parses(k)
                     THEN IsNum(numeric[i]) /\ C6_SameNumber(k, Tail(numeric[i]))
                     ELSE numeric[i] = NaN
                  /\ series[i] = <<"(","1",",","2","3","4",".","5","0",")">>
                        => C6_SameNumber(<<"-","1","2","3","4",".","5","0">>,
                                         Tail(numeric[i]))
                  /\ series[i] = <<"$","2",",","0","0","0">>
                        => numeric[i] = <<"num","2","0","0","0">>
                  /\ series[i] = <<"n","/","a">> => numeric[i] = NaN

\* a parenthesized amount converted next to a value that does not parse
C6_Witness ==
    /\ pc = "number_returned"
    /\ Len(series) = 2
    /\ series[1] = <<"(","1",",","2","3","4",".","5","0",")">>
    /\ numeric[1] = <<"num","-","1","2","3","4",".","5">>
    /\ series[2] = <<"(","1",")">>
    /\ numeric[2] = <<"num","-","1">>

----------------------------------------------------------------------------
(* extract_date_from_filename on its own.                                  *)

InitDate ==
    /\ pc = "extract_date"
    /\ filename \in Filenames
    /\ raw = <<>> /\ hdr = NotFound /\ cleaned_cols = <<>>
    /\ sheet_df = EmptyFrame /\ series = <<>> /\ numeric = <<>>
    /\ date = IdleDate
    /\ workbook = IdleWorkbook /\ visible_sheets = <<>> /\ frames = <<>>
    /\ cursor = 0 /\ df = EmptyFrame /\ enriched = EmptyFrame

ExtractDate ==
    /\ pc = "extract_date"
    /\ date' = extract_date_from_filename(filename)
    /\ pc' = "date_returned"
    /\ UNCHANGED <<raw, hdr, cleaned_cols, sheet_df, series, numeric, filename,
                   workbook, visible_sheets, frames, cursor, df, enriched>>

NextDate == ExtractDate

SpecDate == InitDate /\ [][NextDate]_vars

\* positions where "20" and two digits start
C10_YearHits(s) ==
    {i \in 1..(Len(s) - 3) :
        s[i] = "2" /\ s[i + 1] = "0" /\ s[i + 2] \in Digits /\ s[i + 3] \in Digits}

\* month-table entries, by position, whose key is in the lower-cased name
C10_MonthHits(s) ==
    {k \in 1..Len(month_map) : IsSubstring(month_map[k].key, LowerStr(s))}

C10_Least(S) == CHOOSE x \in S : \A y \in S : x <= y

\* C10: the year is the integer of the leftmost "20" followed by two digits,
\* or absent; the month is the (name, number) of the first key, in table
\* order, that is a substring of the lower-cased filename, wherever it
\* occurs, or (absent, absent).  "1_Order_Book_Mar_2025.xlsx" gives
\* (2025, "Mar", 3) and "no_date_here.xlsx" gives (absent, absent, absent).
C10_DateFromFilename ==
    pc = "date_returned" =>
        /\ IF C10_YearHits(filename) = {} THEN date.year = None
           ELSE LET i == C10_Least(C10_YearHits(filename))
                IN  date.year = <<"num", "2", "0", filename[i + 2], filename[i + 3]>>
        /\ IF C10_MonthHits(filename) = {}
           THEN date.month_name = None /\ date.month_num = None
           ELSE LET k == C10_Least(C10_MonthHits(filename))
                IN  /\ date.month_name = month_map[k].name
                    /\ date.month_num = <<"num">> \o month_map[k].num
        /\ filename = <<"1","_","O","r","d","e","r","_","B","o","o","k","_","M","a","r","_","2","0","2","5",".","x","l","s","x">>
              => date = [year |-> <<"num","2","0","2","5">>,
                         month_name |-> <<"M","a","r">>,
                         month_num |-> <<"num","3">>]
        /\ filename = <<"n","o","_","d","a","t","e","_","h","e","r","e",".","x","l","s","x">>
              => date = [year |-> None, month_name |-> None, month_num |-> None]
        /\ month_map[1].key = <<"j","a","n">>
        /\ month_map[2].key = <<"j","a","n","u","a","r","y">>
        /\ month_map[3].key = <<"f","e","b">>
        /\ month_map[4].key = <<"f","e","b","r","u","a","r","y">>
        /\ month_map[5].key = <<"m","a","r">>

\* "may" comes first in the name, "mar" first in the table: March wins; two
\* year patterns: the left one wins
C10_Witness ==
    /\ pc = "date_returned"
    /\ filename = <<"m","a","y","M","a","r","2","0","2","4">>
    /\ date = [year |-> <<"num","2","0","2","4">>,
               month_name |-> <<"M","a","r">>,
               month_num |-> <<"num","3">>]

----------------------------------------------------------------------------
(* read_sheet on its own, in its two stages: column resolution, then the   *)
(* numeric conversion.                                                     *)

InitSheet ==
    /\ pc = "read_sheet"
    /\ raw \in SheetGrids
    /\ hdr = NotFound /\ cleaned_cols = <<>> /\ sheet_df = EmptyFrame
    /\ series = <<>> /\ numeric = <<>>
    /\ filename = <<>> /\ date = IdleDate
    /\ workbook = IdleWorkbook /\ visible_sheets = <<>> /\ frames = <<>>
    /\ cursor = 0 /\ df = EmptyFrame /\ enriched = EmptyFrame

\* lines 70-143 when they return: empty grid, no header, or no data row
SheetReturnsEarly ==
    /\ pc = "read_sheet"
    /\ LET r == read_sheet_resolve(raw)
       IN  /\ r.returned
           /\ hdr' = r.hdr
           /\ cleaned_cols' = r.cleaned
           /\ sheet_df' = r.frame
    /\ pc' = "sheet_returned"
    /\ UNCHANGED <<raw, series, numeric, filename, date, workbook,
                   visible_sheets, frames, cursor, df, enriched>>

\* lines 70-143 when they go on to the numeric conversion
SheetResolves ==
    /\ pc = "read_sheet"
    /\ LET r == read_sheet_resolve(raw)
       IN  /\ ~r.returned
           /\ hdr' = r.hdr
           /\ cleaned_cols' = r.cleaned
           /\ sheet_df' = r.frame
    /\ pc' = "resolved"
    /\ UNCHANGED <<raw, series, numeric, filename, date, workbook,
                   visible_sheets, frames, cursor, df, enriched>>

\* lines 145-159
SheetCoerces ==
    /\ pc = "resolved"
    /\ sheet_df' = Coerced(sheet_df)
    /\ pc' = "sheet_returned"
    /\ UNCHANGED <<raw, hdr, cleaned_cols, series, numeric, filename, date,
                   workbook, visible_sheets, frames, cursor, df, enriched>>

NextSheet == SheetReturnsEarly \/ SheetResolves \/ SheetCoerces

SpecSheet == InitSheet /\ [][NextSheet]_vars

\* the data rows: the grid rows below the header row
DataRows == SubSeq(raw, hdr + 2, Len(raw))

\* the candidate list of the t-th schema column: its alias entry if it has
\* one, else its own name
C3_Candidates(t) ==
    IF t = 6 THEN
        << <<"L","o","c","a","t","i","o","n"," ","(","C","o","u","n","t","r","y",")">>,
           <<"L","o","c","a","t","i","o","n">>,
           <<"C","o","u","n","t","r","y">> >>
    ELSE IF t = 15 THEN
        << <<"N","e","w","P","r","o","j","e","c","t">>,
           <<"N","e","w"," ","P","r","o","j","e","c","t">>,
           <<"N","e","w","_","P","r","o","j","e","c","t">>,
           <<"I","s","N","e","w">>,
           <<"I","s"," ","N","e","w">> >>
    ELSE <<TARGET_COLUMNS[t]>>

\* positions of the candidates of column t whose normalized form is the
\* normalized form of a label of the working table
C3_CandidateHits(t) ==
    {i \in 1..Len(C3_Candidates(t)) :
        \E j \in 1..Len(cleaned_cols) :
            normalize(cleaned_cols[j]) = normalize(C3_Candidates(t)[i])}

C3_First(S) == CHOOSE x \in S : \A y \in S : x <= y

\* C3: each schema column probes its candidates (alias entry, else its own
\* name) in list order; the first candidate whose normalized form is that of
\* a header label selects a source column with that label, whose values are
\* copied in row order under the canonical name; with no matching candidate
\* every row of the column is absent.  The output has one row per grid row
\* below the header.
C3_ColumnResolution ==
    /\ pc = "sheet_returned" /\ hdr # NotFound /\ sheet_df # Raised
          => Len(sheet_df.rows) = Len(raw) - (hdr + 1)
    /\ pc = "resolved" =>
          /\ sheet_df # Raised
          /\ Len(sheet_df.rows) = Len(raw) - (hdr + 1)
          /\ \A t \in 1..Len(TARGET_COLUMNS) :
                IF C3_CandidateHits(t) = {}
                THEN \A r \in 1..Len(DataRows) : sheet_df.rows[r][t] = NaN
                ELSE LET key == normalize(C3_Candidates(t)[C3_First(C3_CandidateHits(t))])
                     IN  \E j \in 1..Len(cleaned_cols) :
                            /\ normalize(cleaned_cols[j]) = key
                            /\ \A r \in 1..Len(DataRows) :
                                  sheet_df.rows[r][t] = DataRows[r][j]

\* "Country" stands left of "Location" in the header; "Location", the
\* earlier candidate, supplies the values of Location (Country)
C3_Witness ==
    /\ pc = "resolved"
    /\ Len(DataRows) = 2
    /\ cleaned_cols = <<JobNumberLabel, CurrencyLabel,
                        <<"C","o","u","n","t","r","y">>,
                        <<"L","o","c","a","t","i","o","n">> >>
    /\ sheet_df.rows[1][6] = DataRows[1][4]
    /\ sheet_df.rows[2][6] = DataRows[2][4]
    /\ sheet_df.rows[1][6] # DataRows[1][3]
    /\ sheet_df.rows[1][2] = NaN

\* C4: no two effective header labels of a sheet have the same normalized
\* form (the normalized-label index is one-to-one), and a canonical column
\* whose label occurs in several header columns takes its values from the
\* first of them, never from a later one.
C4_OneToOneIndex ==
    pc \in {"resolved", "sheet_returned"} /\ hdr # NotFound =>
        /\ \A i, j \in 1..Len(cleaned_cols) :
              i < j => normalize(cleaned_cols[i]) # normalize(cleaned_cols[j])
        /\ pc = "resolved" =>
              \A t \in 1..Len(TARGET_COLUMNS) :
                 \A j \in 1..Len(raw[hdr + 1]) :
                    /\ normalize(raw[hdr + 1][j]) = normalize(TARGET_COLUMNS[t])
                    /\ \A i \in 1..(j - 1) :
                          normalize(raw[hdr + 1][i]) # normalize(TARGET_COLUMNS[t])
                    => \A r \in 1..Len(DataRows) :
                          sheet_df.rows[r][t] = DataRows[r][j]

\* C5: after blank labels are replaced by unnamed_col_<i> and repeated
\* labels are suffixed with _duplicate_<k>, the effective labels of the
\* working table are pairwise distinct, also when the header row holds a
\* label that equals a generated name.
C5_DistinctLabels ==
    pc \in {"resolved", "sheet_returned"} /\ hdr # NotFound =>
        \A i, j \in 1..Len(cleaned_cols) :
            i < j => cleaned_cols[i] # cleaned_cols[j]

----------------------------------------------------------------------------
(* process_excel_file: read_file over the sheets of a workbook, then the   *)
(* metadata and the row hash.                                              *)

ProjectTitleLabel == TARGET_COLUMNS[4]
ClientLabel == TARGET_COLUMNS[5]
OfficeLabel == TARGET_COLUMNS[2]
GrossFeeLabel == TARGET_COLUMNS[11]

\* a sheet with a header row and two data rows; the second has no client
SheetOrders == <<
    <<JobNumberLabel, ProjectTitleLabel, ClientLabel, OfficeLabel, CurrencyLabel, GrossFeeLabel>>,
    <<<<"J","1">>, <<"T","o","w","e","r">>, <<"A","c","m","e">>, <<"S","G">>,
      <<"U","S","D">>, <<"(","1",",","2","3","4",".","5","0",")">>>>,
    <<<<"J","2">>, <<"B","r","i","d","g","e">>, NaN, <<"S","G">>,
      <<"S","G","D">>, <<"$","2",",","0","0","0">>>> >>

\* a sheet with a banner row, other spellings of the labels and one data row
\* whose client is the text "nan"
SheetRespelled == <<
    <<Title, NaN, NaN, NaN, NaN>>,
    <<<<"J","o","b"," ","N","u","m","b","e","r">>,
      <<"P","r","o","j","e","c","t"," ","T","i","t","l","e">>,
      <<"c","l","i","e","n","t">>, OfficeLabel, CurrencyLabel>>,
    <<<<"J","2">>, <<"B","r","i","d","g","e">>, <<"n","a","n">>, <<"S","G">>,
      <<"E","U","R">>>> >>

\* a header row and nothing below it
SheetNoRows == << <<Title, NaN>>, <<JobNumberLabel, CurrencyLabel>> >>

\* no row holds both anchors
SheetNoHeader == << <<Title, NaN>>, <<JobNumberLabel, ClientLabel>>,
                    <<<<"J","1">>, <<"A","c","m","e">>>> >>

SheetContents == {SheetOrders, SheetRespelled, SheetNoRows, SheetNoHeader,
                  <<>>, Unreadable}

Sheets ==
    {[state |-> "visible", content |-> c] : c \in SheetContents}
    \cup {[state |-> "hidden", content |-> SheetOrders]}

Workbooks ==
    {[opens |-> o, enumerates |-> e, sheets |-> ss, name |-> n,
      mtime |-> <<"2","0","2","5","-","0","3","-","3","1"," ","0","9",":","1","5">>] :
        o \in BOOLEAN, e \in BOOLEAN, ss \in SeqsUpTo(Sheets, MaxSheets),
        n \in { <<"1","_","O","r","d","e","r","_","B","o","o","k","_","M","a","r","_","2","0","2","5",".","x","l","s","x">>,
                <<"n","o","_","d","a","t","e","_","h","e","r","e",".","x","l","s","x">> }}

Init ==
    /\ pc = "read_file"
    /\ workbook \in Workbooks
    /\ raw = <<>> /\ hdr = NotFound /\ cleaned_cols = <<>>
    /\ sheet_df = EmptyFrame /\ series = <<>> /\ numeric = <<>>
    /\ filename = <<>> /\ date = IdleDate
    /\ visible_sheets = <<>> /\ frames = <<>>
    /\ cursor = 0 /\ df = EmptyFrame /\ enriched = EmptyFrame

\* names (positions) of the sheets whose sheet_state is 'visible', in order
RECURSIVE VisibleFrom(_, _)
VisibleFrom(sheets, i) ==
    IF i > Len(sheets) THEN <<>>
    ELSE IF sheets[i].state = "visible"
    THEN <<i>> \o VisibleFrom(sheets, i + 1)
    ELSE VisibleFrom(sheets, i + 1)

\* pd.ExcelFile raises: read_file prints and returns the empty schema frame
OpenFails ==
    /\ pc = "read_file"
    /\ ~workbook.opens
    /\ df' = EmptySchemaFrame
    /\ pc' = "read_file_returned"
    /\ UNCHANGED <<raw, hdr, cleaned_cols, sheet_df, series, numeric, filename,
                   date, workbook, visible_sheets, frames, cursor, enriched>>

\* openpyxl.load_workbook (or a sheet lookup) raises: nothing in read_file
\* catches it
EnumerateFails ==
    /\ pc = "read_file"
    /\ workbook.opens /\ ~workbook.enumerates
    /\ df' = Raised
    /\ pc' = "read_file_returned"
    /\ UNCHANGED <<raw, hdr, cleaned_cols, sheet_df, series, numeric, filename,
                   date, workbook, visible_sheets, frames, cursor, enriched>>

\* lines 176-197: the workbook opens and its visible sheets are listed
OpenWorkbook ==
    /\ pc = "read_file"
    /\ workbook.opens /\ workbook.enumerates
    /\ visible_sheets' = VisibleFrom(workbook.sheets, 1)
    /\ frames' = <<>>
    /\ cursor' = 1
    /\ pc' = "sheets"
    /\ UNCHANGED <<raw, hdr, cleaned_cols, sheet_df, series, numeric, filename,
                   date, workbook, df, enriched>>

\* one turn of the loop over visible_sheets
ReadNextSheet ==
    /\ pc = "sheets"
    /\ cursor <= Len(visible_sheets)
    /\ LET result == read_sheet(workbook.sheets[visible_sheets[cursor]].content)
       IN  /\ sheet_df' = result
           /\ frames' = frames_after(frames, result)
    /\ cursor' = cursor + 1
    /\ UNCHANGED <<pc, raw, hdr, cleaned_cols, series, numeric, filename, date,
                   workbook, visible_sheets, df, enriched>>

\* lines 207-210
ReturnFrames ==
    /\ pc = "sheets"
    /\ cursor > Len(visible_sheets)
    /\ df' = read_file_result(frames)
    /\ pc' = "read_file_returned"
    /\ UNCHANGED <<raw, hdr, cleaned_cols, sheet_df, series, numeric, filename,
                   date, workbook, visible_sheets, frames, cursor, enriched>>

\* process_excel_file after its call of read_file
ProcessFile ==
    /\ pc = "read_file_returned"
    /\ enriched' = process_result(workbook, df)
    /\ pc' = "done"
    /\ UNCHANGED <<raw, hdr, cleaned_cols, sheet_df, series, numeric, filename,
                   date, workbook, visible_sheets, frames, cursor, df>>

Next ==
    \/ OpenFails
    \/ EnumerateFails
    \/ OpenWorkbook
    \/ ReadNextSheet
    \/ ReturnFrames
    \/ ProcessFile

Spec == Init /\ [][Next]_vars

\* C1: every table returned by read_sheet and by read_file has exactly the
\* TARGET_COLUMNS columns, in order, whatever the outcome (header and data
\* rows, header and no data row, no header, empty grid); without a header and
\* for an empty grid the table has the schema columns and no row.
C1_SchemaColumns ==
    /\ pc = "sheets" /\ cursor > 1 /\ sheet_df # Raised
          => sheet_df.columns = TARGET_COLUMNS
    /\ pc \in {"read_file_returned", "done"} /\ df # Raised
          => df.columns = TARGET_COLUMNS

\* the visible sheet at position i of visible_sheets was read and has a row
C7_Succeeded(i) ==
    LET f == read_sheet(workbook.sheets[visible_sheets[i]].content)
    IN  f # Raised /\ f.columns # <<>> /\ Len(f.rows) >= 1

\* the rows of the first n visible sheets that succeeded, sheet after sheet
RECURSIVE C7_Rows(_)
C7_Rows(n) ==
    IF n = 0 THEN <<>>
    ELSE C7_Rows(n - 1) \o
         (IF C7_Succeeded(n)
          THEN read_sheet(workbook.sheets[visible_sheets[n]].content).rows
          ELSE <<>>)

\* C7: whichever sheets raise or come back empty, read_file returns the
\* rows of the sheets that succeeded with at least one row, in sheet order
\* and in each sheet's row order; a failing sheet neither stops the later
\* sheets nor removes rows collected before it; if no sheet succeeds the
\* result is the empty table with the schema columns, not an error.
C7_SheetIsolation ==
    /\ pc = "sheets" => ConcatRows(frames) = C7_Rows(cursor - 1)
    /\ pc \in {"read_file_returned", "done"}
       /\ workbook.opens /\ workbook.enumerates
          => /\ df # Raised
             /\ df.columns = TARGET_COLUMNS
             /\ df.rows = C7_Rows(Len(visible_sheets))

\* an unreadable sheet, then a sheet of two rows: the two rows are returned
C7_Witness ==
    /\ pc = "read_file_returned"
    /\ Len(workbook.sheets) = 2
    /\ workbook.sheets[1] = [state |-> "visible", content |-> Unreadable]
    /\ workbook.sheets[2] = [state |-> "visible", content |-> SheetOrders]
    /\ Len(df.rows) = 2
    /\ df.rows[2][1] = <<"J","2">>

\* C8: a workbook that cannot be opened, or whose sheets cannot be
\* enumerated, ends as an error for that workbook, which the caller can tell
\* from a workbook read without rows; nothing else ends as such an error.
C8_UnreadableWorkbookIsError ==
    pc \in {"read_file_returned", "done"} =>
        (df = Raised <=> (~workbook.opens \/ ~workbook.enumerates))

\* absent taken as the empty string
C9_Text(v) == IF v = NaN THEN <<>> ELSE v

\* the four hashed fields of a row: JobNumber, ProjectTitle, Client, Office
C9_Fields(row) == <<row[1], row[4], row[5], row[2]>>

C9_Hash(row) == row[Len(TARGET_COLUMNS) + Len(MetadataColumns)]

\* C9: the row hash is the digest of the string forms of JobNumber,
\* ProjectTitle, Client and Office, in that order, absent as the empty
\* string, joined by "|"; rows equal in the four fields have equal hashes,
\* and rows differing in exactly one of them have different hashed strings.
C9_RowHash ==
    pc = "done" =>
        /\ \A r \in 1..Len(enriched.rows) :
              C9_Hash(enriched.rows[r]) =
                  <<"md5">> \o C9_Text(enriched.rows[r][1]) \o <<"|">>
                            \o C9_Text(enriched.rows[r][4]) \o <<"|">>
                            \o C9_Text(enriched.rows[r][5]) \o <<"|">>
                            \o C9_Text(enriched.rows[r][2])
        /\ \A r, q \in 1..Len(enriched.rows) :
              /\ C9_Fields(enriched.rows[r]) = C9_Fields(enriched.rows[q])
                    => C9_Hash(enriched.rows[r]) = C9_Hash(enriched.rows[q])
              /\ Cardinality({i \in 1..4 : C9_Fields(enriched.rows[r])[i]
                                           # C9_Fields(enriched.rows[q])[i]}) = 1
                    => C9_Hash(enriched.rows[r]) # C9_Hash(enriched.rows[q])

====
